---- MODULE Spec2Model ----
(***************************************************************************)
(* Model of sim::MazeFileUtilities (src/src/sim/MazeFileUtilities.cpp):    *)
(* the maze-file validator isMazeFile and the codec saveMaze / loadMaze.   *)
(*                                                                         *)
(* A file is a sequence of lines, a line is a sequence of one-character    *)
(* strings (the characters between two newlines), a token is a sequence of *)
(* characters.  Integers are written and parsed in base 10, so the text    *)
(* on disk and the integers in memory are different things.                *)
(***************************************************************************)
EXTENDS Integers, Sequences, FiniteSets, TLC

VARIABLES
    disk,       \* the path: [exists, readable, lines]
    diskFrom,   \* who wrote the file: "author", "save-app" or "save-load"
    maze,       \* the grid held by the caller: Seq(Seq(BasicTile))
    mazeFrom,   \* who built `maze`: "app" (application code) or "load"
    pc,         \* position of the calling thread
    lineNum,    \* isMazeFile local
    expectedX,  \* isMazeFile local
    expectedY,  \* isMazeFile local
    ret,        \* what the last call handed back to its caller
    diags       \* warnings the current/last call sent to the log

vars == <<disk, diskFrom, maze, mazeFrom, pc, lineNum, expectedX, expectedY, ret, diags>>

(***************************************************************************)
(* Bounds of the model.                                                    *)
(***************************************************************************)
MaxLines == 3    \* lines of an authored file
MaxCols == 2     \* columns of an application-built grid
MaxRows == 2     \* cells of one column of an application-built grid

(***************************************************************************)
(* Text: characters, tokens, integers.                                     *)
(***************************************************************************)
Digits == <<"0", "1", "2", "3", "4", "5", "6", "7", "8", "9">>

IsDigit(c) == \E i \in 1..10 : Digits[i] = c

DigitVal(c) == (CHOOSE i \in 1..10 : Digits[i] = c) - 1

IsSpace(c) == c \in {" ", "\t"}

RECURSIVE TokenizeFrom(_, _, _, _)
TokenizeFrom(line, i, cur, acc) ==
    IF i > Len(line)
    THEN IF cur = <<>> THEN acc ELSE Append(acc, cur)
    ELSE IF IsSpace(line[i])
         THEN TokenizeFrom(line, i + 1, <<>>,
                           IF cur = <<>> THEN acc ELSE Append(acc, cur))
         ELSE TokenizeFrom(line, i + 1, Append(cur, line[i]), acc)

\* SimUtilities::tokenize: the whitespace separated tokens of a line
tokenize(line) == TokenizeFrom(line, 1, <<>>, <<>>)

Unsigned(tok) ==
    IF tok # <<>> /\ tok[1] \in {"+", "-"} THEN Tail(tok) ELSE tok

\* SimUtilities::isInt: optional leading sign, then base-10 digits
isInt(tok) ==
    /\ Unsigned(tok) # <<>>
    /\ \A i \in 1..Len(Unsigned(tok)) : IsDigit(Unsigned(tok)[i])

RECURSIVE DigitsToNat(_, _)
DigitsToNat(ds, acc) ==
    IF ds = <<>> THEN acc
    ELSE DigitsToNat(Tail(ds), 10 * acc + DigitVal(Head(ds)))

\* SimUtilities::strToInt
strToInt(tok) ==
    IF tok[1] = "-" THEN 0 - DigitsToNat(Unsigned(tok), 0)
    ELSE DigitsToNat(Unsigned(tok), 0)

RECURSIVE NatToDigits(_)
NatToDigits(n) ==
    IF n < 10 THEN <<Digits[n + 1]>>
    ELSE Append(NatToDigits(n \div 10), Digits[(n % 10) + 1])

\* operator<<(std::ostream&, int) and std::to_string(int)
IntToStr(n) == IF n < 0 THEN <<"-">> \o NatToDigits(0 - n) ELSE NatToDigits(n)

(***************************************************************************)
(* Directions and tiles.                                                   *)
(***************************************************************************)
DIRECTIONS == <<"NORTH", "EAST", "SOUTH", "WEST">>

Direction == {DIRECTIONS[i] : i \in 1..Len(DIRECTIONS)}

\* SimUtilities::getDirectionIndex: 0-based position in DIRECTIONS
getDirectionIndex(direction) ==
    (CHOOSE i \in 1..Len(DIRECTIONS) : DIRECTIONS[i] = direction) - 1

(***************************************************************************)
(* isMazeFile, one line of the while loop (lines 62-133).                  *)
(***************************************************************************)
Diag(kind, n) == [kind |-> kind, line |-> n]

\* line 71
TokenCountOk(tokens) == 6 = Len(tokens)

\* lines 82-96
AllNumeric(tokens) == \A i \in 1..Len(tokens) : isInt(tokens[i])

\* line 94: values.push_back(strToInt(tokens.at(i)))
Values(tokens) == [i \in 1..Len(tokens) |-> strToInt(tokens[i])]

\* line 100
caseOne(x, y, ex, ey) == x = ex /\ y = ey

\* caseTwo without the first-line guard
caseTwo_NoFirstLineGuard(x, y, ex, ey) == x = ex + 1 /\ y = 0

\* caseTwo with the guard on the wrong variable
caseTwo_GuardOnX(x, y, ex, ey) == x = ex + 1 /\ y = 0 /\ ex # 0

\* caseTwo asking for a previous column of two rows or more
caseTwo_TwoRows(x, y, ex, ey) == x = ex + 1 /\ y = 0 /\ ey > 1

\* line 101
caseTwo(x, y, ex, ey) == x = ex + 1 /\ y = 0 /\ ey # 0

\* the new column's expected Y reset to 0 instead of 1
NextExpected_ResetZero(x, y, ex, ey) ==
    IF caseOne(x, y, ex, ey) THEN [ex |-> ex, ey |-> ey + 1]
    ELSE [ex |-> ex + 1, ey |-> 0]

\* lines 102-108: the expectation after an accepted coordinate
NextExpected(x, y, ex, ey) ==
    IF caseOne(x, y, ex, ey) THEN [ex |-> ex, ey |-> ey + 1]
    ELSE [ex |-> ex + 1, ey |-> 1]

\* line 122
WallValueOk(value) == value = 0 \/ value = 1

\* the wall loop stopping one short
WallsOk_ThreeWalls(values) == \A i \in 0..2 : WallValueOk(values[2 + i + 1])

\* lines 120-132
WallsOk(values) == \A i \in 0..3 : WallValueOk(values[2 + i + 1])

\* One iteration of the loop body on `line`, numbered n, from expectation
\* (ex, ey): whether the loop goes on, the expectation it leaves, and the
\* warning it logs when it returns false.
CheckLine(line, n, ex, ey) ==
    LET tokens == tokenize(line)
        values == Values(tokens)
        nxt == NextExpected(values[1], values[2], ex, ey)
    IN  IF ~TokenCountOk(tokens)
        THEN [ok |-> FALSE, ex |-> ex, ey |-> ey,
              diag |-> Diag("wrong-token-count", n)]
        ELSE IF ~AllNumeric(tokens)
        THEN [ok |-> FALSE, ex |-> ex, ey |-> ey,
              diag |-> Diag("non-numeric-token", n)]
        ELSE IF ~(caseOne(values[1], values[2], ex, ey)
                  \/ caseTwo(values[1], values[2], ex, ey))
        THEN [ok |-> FALSE, ex |-> ex, ey |-> ey,
              diag |-> Diag("unexpected-coordinate", n)]
        ELSE IF ~WallsOk(values)
        THEN [ok |-> FALSE, ex |-> nxt.ex, ey |-> nxt.ey,
              diag |-> Diag("invalid-wall-value", n)]
        ELSE [ok |-> TRUE, ex |-> nxt.ex, ey |-> nxt.ey,
              diag |-> Diag("none", n)]

(***************************************************************************)
(* isMazeFile as a whole (lines 12-136): what it returns, the warning it   *)
(* logs, and its locals when it returns.                                   *)
(***************************************************************************)
\* line 37: SimUtilities::isFile
isFile(d) == d.exists

\* line 46: file.is_open()
is_open(d) == d.readable

\* the empty-file check left out
IsEmptyFile_Never(d) == FALSE

\* line 52: file.peek() == eof
IsEmptyFile(d) == d.lines = <<>>

Outcome(r, n, ex, ey, ds) ==
    [ret |-> r, lineNum |-> n, expectedX |-> ex, expectedY |-> ey, diags |-> ds]

RECURSIVE ScanFrom(_, _, _, _)
ScanFrom(lines, n, ex, ey) ==
    IF n = Len(lines) THEN Outcome("true", n, ex, ey, <<>>)
    ELSE LET r == CheckLine(lines[n + 1], n + 1, ex, ey)
         IN  IF r.ok THEN ScanFrom(lines, n + 1, r.ex, r.ey)
             ELSE Outcome("false", n + 1, r.ex, r.ey, <<r.diag>>)

isMazeFile(d) ==
    IF ~isFile(d) THEN Outcome("false", 0, 0, 0, <<Diag("not-a-file", 0)>>)
    ELSE IF ~is_open(d) THEN Outcome("false", 0, 0, 0, <<Diag("cannot-open", 0)>>)
    ELSE IF IsEmptyFile(d) THEN Outcome("false", 0, 0, 0, <<Diag("empty-file", 0)>>)
    ELSE ScanFrom(d.lines, 0, 0, 0)

(***************************************************************************)
(* saveMaze (lines 138-161).                                               *)
(***************************************************************************)
\* the wall flag written inverted
WallBit_Inverted(tile, direction) == IF tile.walls[direction] THEN 0 ELSE 1

\* line 154: (walls.at(direction) ? 1 : 0)
WallBit(tile, direction) == IF tile.walls[direction] THEN 1 ELSE 0

RECURSIVE WallText(_, _)
WallText(tile, i) ==
    IF i > Len(DIRECTIONS) THEN <<>>
    ELSE <<" ">> \o IntToStr(WallBit(tile, DIRECTIONS[i])) \o WallText(tile, i + 1)

\* rows written counted from 1
SaveLine_OneBasedY(x, y, tile) ==
    IntToStr(x) \o <<" ">> \o IntToStr(y + 1) \o WallText(tile, 1)

\* lines 152-156: the line written for cell (x, y), x and y counted from 0
SaveLine(x, y, tile) == IntToStr(x) \o <<" ">> \o IntToStr(y) \o WallText(tile, 1)

\* lines 151-157
ColumnLines(column, x) == [y1 \in 1..Len(column) |-> SaveLine(x, y1 - 1, column[y1])]

RECURSIVE SaveFrom(_, _)
SaveFrom(m, x1) ==
    IF x1 > Len(m) THEN <<>>
    ELSE ColumnLines(m[x1], x1 - 1) \o SaveFrom(m, x1 + 1)

\* lines 150-158: everything saveMaze writes for grid m
SaveLines(m) == SaveFrom(m, 1)

(***************************************************************************)
(* loadMaze (lines 163-206).                                               *)
(***************************************************************************)
\* line 166; the macro comes from Assert.h: the call goes on iff cond holds
ASSERT_TR(cond) == cond

\* lines 184-187
LoadTile(tokens) ==
    [walls |-> [d \in Direction |->
                   1 = strToInt(tokens[2 + getDirectionIndex(d) + 1])]]

\* the column boundary test with <= for <
NewColumn_Inclusive(mazeSize, x) == mazeSize <= x

\* line 190
NewColumn(mazeSize, x) == mazeSize < x

\* lines 177-197: one iteration of the read loop
LoadStep(acc, line) ==
    LET tokens == tokenize(line)
        tile == LoadTile(tokens)
    IN  IF NewColumn(Len(acc.maze), strToInt(tokens[1]))
        THEN [maze |-> Append(acc.maze, acc.column), column |-> <<tile>>]
        ELSE [maze |-> acc.maze, column |-> Append(acc.column, tile)]

RECURSIVE LoadFrom(_, _, _)
LoadFrom(lines, i, acc) ==
    IF i > Len(lines) THEN acc
    ELSE LoadFrom(lines, i + 1, LoadStep(acc, lines[i]))

\* line 200: the last column is appended after the loop
FlushLast(acc) == Append(acc.maze, acc.column)

\* lines 168-205
LoadLines(lines) == FlushLast(LoadFrom(lines, 1, [maze |-> <<>>, column |-> <<>>]))

(***************************************************************************)
(* Inputs: authored files and application-built grids.                     *)
(***************************************************************************)
SeqsUpTo(S, n) == UNION {[1..k -> S] : k \in 0..n}

RECURSIVE Spaced(_)
Spaced(cs) ==
    IF Len(cs) <= 1 THEN cs ELSE <<Head(cs), " ">> \o Spaced(Tail(cs))

WellFormedSamples ==
    { Spaced(<<"0", "0", "1", "0", "0", "0">>),
      Spaced(<<"0", "0", "0", "1", "1", "0">>),
      Spaced(<<"0", "1", "1", "0", "0", "0">>),
      <<" ", "0", " ", " ", "1", "\t", "0", " ", "1", " ", "1", " ", "0", " ">>,
      Spaced(<<"0", "2", "1", "0", "0", "0">>),
      Spaced(<<"1", "0", "0", "1", "1", "0">>),
      Spaced(<<"1", "1", "1", "0", "0", "0">>),
      Spaced(<<"2", "0", "1", "0", "0", "0">>) }

BadWallSamples ==
    { Spaced(<<"0", "1", "0", "2", "0", "0">>),
      <<"1", " ", "0", " ", "0", " ", "0", " ", "0", " ", "-", "1">>,
      Spaced(<<"1", "1", "2", "0", "0", "0">>) }

MalformedSamples ==
    { Spaced(<<"0", "0", "0", "0", "0">>),
      Spaced(<<"0", "1", "0", "0", "0", "0", "0">>),
      Spaced(<<"0", "a", "0", "0", "0", "0">>),
      Spaced(<<"a", "0", "0", "0", "0">>),
      <<>> }

SampleLines == WellFormedSamples \cup BadWallSamples \cup MalformedSamples

Files == SeqsUpTo(SampleLines, MaxLines)

Tile(n, e, s, w) ==
    [walls |-> [d \in Direction |->
        CASE d = "NORTH" -> n [] d = "EAST" -> e [] d = "SOUTH" -> s [] d = "WEST" -> w]]

TileSamples == {Tile(TRUE, FALSE, FALSE, FALSE), Tile(FALSE, TRUE, TRUE, FALSE)}

Grids == SeqsUpTo(SeqsUpTo(TileSamples, MaxRows), MaxCols)

Missing == [exists |-> FALSE, readable |-> FALSE, lines |-> <<>>]

Unreadable ==
    [exists |-> TRUE, readable |-> FALSE,
     lines |-> <<Spaced(<<"0", "0", "1", "0", "0", "0">>)>>]

AuthoredFile(f) == [exists |-> TRUE, readable |-> TRUE, lines |-> f]

(***************************************************************************)
(* The state machine.                                                      *)
(***************************************************************************)
Resting == {"idle", "validated", "saved", "loaded"}

Init ==
    /\ \/ /\ disk \in {AuthoredFile(f) : f \in Files} \cup {Missing, Unreadable}
          /\ maze = <<>>
       \/ /\ disk = Missing
          /\ maze \in Grids
    /\ diskFrom = "author"
    /\ mazeFrom = "app"
    /\ pc = "idle"
    /\ lineNum = 0
    /\ expectedX = 0
    /\ expectedY = 0
    /\ ret = "none"
    /\ diags = <<>>

\* isMazeFile, lines 36-60: the checks on the path, then the locals
isMazeFileBegin ==
    /\ pc \in Resting
    /\ lineNum' = 0
    /\ expectedX' = 0
    /\ expectedY' = 0
    /\ IF ~isFile(disk)
       THEN pc' = "validated" /\ ret' = "false" /\ diags' = <<Diag("not-a-file", 0)>>
       ELSE IF ~is_open(disk)
       THEN pc' = "validated" /\ ret' = "false" /\ diags' = <<Diag("cannot-open", 0)>>
       ELSE IF IsEmptyFile(disk)
       THEN pc' = "validated" /\ ret' = "false" /\ diags' = <<Diag("empty-file", 0)>>
       ELSE pc' = "scan" /\ ret' = "none" /\ diags' = <<>>
    /\ UNCHANGED <<disk, diskFrom, maze, mazeFrom>>

\* isMazeFile, lines 62-133: getline succeeds, one iteration of the loop
isMazeFileLine ==
    /\ pc = "scan"
    /\ lineNum < Len(disk.lines)
    /\ LET r == CheckLine(disk.lines[lineNum + 1], lineNum + 1, expectedX, expectedY)
       IN  /\ lineNum' = lineNum + 1
           /\ expectedX' = r.ex
           /\ expectedY' = r.ey
           /\ IF r.ok
              THEN UNCHANGED <<pc, ret, diags>>
              ELSE pc' = "validated" /\ ret' = "false" /\ diags' = <<r.diag>>
    /\ UNCHANGED <<disk, diskFrom, maze, mazeFrom>>

\* isMazeFile, lines 62 and 135: getline fails at end of file, return true
isMazeFileEnd ==
    /\ pc = "scan"
    /\ lineNum = Len(disk.lines)
    /\ pc' = "validated"
    /\ ret' = "true"
    /\ UNCHANGED <<disk, diskFrom, maze, mazeFrom, lineNum, expectedX, expectedY, diags>>

\* saveMaze, lines 138-161; whether the stream opens is the environment's choice
saveMaze ==
    /\ pc \in Resting
    /\ \E opened \in BOOLEAN :
          IF ~opened
          THEN /\ diags' = <<Diag("unable-to-save", 0)>>
               /\ UNCHANGED <<disk, diskFrom>>
          ELSE /\ diags' = <<>>
               /\ diskFrom' = IF mazeFrom = "load" THEN "save-load" ELSE "save-app"
               /\ disk' = [exists |-> TRUE,
                           readable |-> IF disk.exists THEN disk.readable ELSE TRUE,
                           lines |-> SaveLines(maze)]
    /\ pc' = "saved"
    /\ ret' = "void"
    /\ lineNum' = 0
    /\ expectedX' = 0
    /\ expectedY' = 0
    /\ UNCHANGED <<maze, mazeFrom>>

\* loadMaze, lines 163-206
loadMaze ==
    /\ pc \in Resting
    /\ LET v == isMazeFile(disk)
       IN  IF ASSERT_TR(v.ret = "true")
           THEN /\ maze' = LoadLines(disk.lines)
                /\ mazeFrom' = "load"
                /\ pc' = "loaded"
                /\ ret' = "maze"
                /\ diags' = <<>>
           ELSE /\ pc' = "aborted"
                /\ ret' = "abort"
                /\ diags' = v.diags
                /\ UNCHANGED <<maze, mazeFrom>>
    /\ lineNum' = 0
    /\ expectedX' = 0
    /\ expectedY' = 0
    /\ UNCHANGED <<disk, diskFrom>>

Next ==
    \/ isMazeFileBegin
    \/ isMazeFileLine
    \/ isMazeFileEnd
    \/ saveMaze
    \/ loadMaze

Spec == Init /\ [][Next]_vars

\* The stepwise validator and the whole-function operator agree.
StepwiseAgrees ==
    pc = "validated" =>
        isMazeFile(disk) = Outcome(ret, lineNum, expectedX, expectedY, diags)

(***************************************************************************)
(* What the claims talk about, stated from the file format and not from    *)
(* the validator's code.                                                   *)
(***************************************************************************)
\* the line holds six integer tokens and its four wall values are 0 or 1
WellFormed(line) ==
    LET t == tokenize(line)
    IN  /\ Len(t) = 6
        /\ \A i \in 1..6 : isInt(t[i])
        /\ \A i \in 3..6 : strToInt(t[i]) \in {0, 1}

\* the (x, y) pair a line with two leading integer tokens names
PairOf(line) == LET t == tokenize(line) IN <<strToInt(t[1]), strToInt(t[2])>>

Pairs(lines) == [i \in 1..Len(lines) |-> PairOf(lines[i])]

Readable(d) == d.exists /\ d.readable

\* ps is (0,0), ..., (0,k0-1), (1,0), ..., (1,k1-1), ... with every k_i >= 1:
\* `starts` are the positions at which a column begins
EnumeratesColumns(ps, starts) ==
    \A i \in 1..Len(ps) :
        LET before == {s \in starts : s <= i}
            first == CHOOSE s \in before : \A u \in before : u <= s
        IN  ps[i] = <<Cardinality(before) - 1, i - first>>

Progression(ps) ==
    /\ ps # <<>>
    /\ \E B \in SUBSET (2..Len(ps)) : EnumeratesColumns(ps, B \cup {1})

\* C1: a readable file of well-formed lines is accepted by isMazeFile if and
\* only if its (x, y) pairs enumerate columns 0, 1, 2, ... each from row 0
\* upwards without gaps, every column holding at least one line.
C1_AcceptsExactlyProgressions ==
    (/\ pc = "validated"
     /\ Readable(disk)
     /\ \A i \in 1..Len(disk.lines) : WellFormed(disk.lines[i]))
    => (ret = "true" <=> Progression(Pairs(disk.lines)))

C1_Witness ==
    /\ pc = "validated"
    /\ ret = "true"
    /\ diskFrom = "author"
    /\ Pairs(disk.lines) = << <<0, 0>>, <<0, 1>>, <<1, 0>> >>

\* the first two lines are well-formed and name (0,0) then (1,0)
StartsWithSingleRowColumn(d) ==
    /\ Readable(d)
    /\ Len(d.lines) >= 2
    /\ WellFormed(d.lines[1]) /\ WellFormed(d.lines[2])
    /\ PairOf(d.lines[1]) = <<0, 0>>
    /\ PairOf(d.lines[2]) = <<1, 0>>

\* C4 as stated: a file whose first line names (0,0) and whose second line
\* names (1,0) is rejected with an unexpected-coordinate diagnosis on line 2.
C4_RejectedOnLineTwo ==
    (pc = "validated" /\ StartsWithSingleRowColumn(disk))
    => (ret = "false" /\ diags = <<Diag("unexpected-coordinate", 2)>>)

\* C4 amended: in a file whose first two lines name (0,0) and (1,0) with
\* valid wall values, line 2 is accepted as the start of column 1: once two
\* lines are read the expectation is column 1 row 1, no diagnosis names line
\* 1 or 2, and a file that ends there is accepted.
C4_AcceptedAsNewColumn ==
    (pc \in {"scan", "validated"} /\ lineNum >= 2 /\ StartsWithSingleRowColumn(disk))
    => /\ \A i \in 1..Len(diags) : diags[i].line > 2
       /\ lineNum = 2 => (expectedX = 1 /\ expectedY = 1)
       /\ (pc = "validated" /\ Len(disk.lines) = 2) => (ret = "true" /\ diags = <<>>)

C4_Witness ==
    /\ pc = "validated"
    /\ StartsWithSingleRowColumn(disk)
    /\ Len(disk.lines) = 2
    /\ ret = "true"

\* the scan has just accepted line lineNum, which names (x, 0), and the next
\* line is well-formed and names (x + 1, 0)
SingleRowColumnThenNext ==
    /\ pc = "scan"
    /\ lineNum >= 1
    /\ lineNum < Len(disk.lines)
    /\ WellFormed(disk.lines[lineNum])
    /\ WellFormed(disk.lines[lineNum + 1])
    /\ PairOf(disk.lines[lineNum])[2] = 0
    /\ PairOf(disk.lines[lineNum + 1]) = <<PairOf(disk.lines[lineNum])[1] + 1, 0>>

\* C5: after a column of exactly one line (x, 0), a following well-formed
\* line (x + 1, 0) is accepted as the start of column x + 1, for x = 0 too.
C5_SingleRowColumnLegal ==
    [][SingleRowColumnThenNext
        => /\ pc' = "scan"
           /\ diags' = <<>>
           /\ lineNum' = lineNum + 1
           /\ expectedX' = PairOf(disk.lines[lineNum])[1] + 1
           /\ expectedY' = 1]_vars

C5_Witness ==
    /\ pc = "scan"
    /\ lineNum = 3
    /\ \A i \in 1..3 : WellFormed(disk.lines[i])
    /\ Pairs(disk.lines) = << <<0, 0>>, <<1, 0>>, <<2, 0>> >>
    /\ expectedX = 2
    /\ expectedY = 1

\* q may follow p in a conformant file
Follows(p, q) == q = <<p[1], p[2] + 1>> \/ q = <<p[1] + 1, 0>>

\* the first rule line i breaks, in the order the rules are listed, given
\* that the lines before it break none; "none" when it breaks no rule
Breaks(lines, i) ==
    LET t == tokenize(lines[i])
    IN  IF Len(t) # 6 THEN "wrong-token-count"
        ELSE IF \E k \in 1..6 : ~isInt(t[k]) THEN "non-numeric-token"
        ELSE IF i = 1 /\ PairOf(lines[1]) # <<0, 0>> THEN "unexpected-coordinate"
        ELSE IF i > 1 /\ ~Follows(PairOf(lines[i - 1]), PairOf(lines[i]))
        THEN "unexpected-coordinate"
        ELSE IF \E k \in 3..6 : strToInt(t[k]) \notin {0, 1} THEN "invalid-wall-value"
        ELSE "none"

RECURSIVE FirstBadFrom(_, _)
FirstBadFrom(lines, i) ==
    IF i > Len(lines) THEN 0
    ELSE IF Breaks(lines, i) # "none" THEN i
    ELSE FirstBadFrom(lines, i + 1)

\* index of the first line that breaks a rule, 0 when there is none
FirstBad(lines) == FirstBadFrom(lines, 1)

\* what a fail-fast validator hands back for these lines
FailFast(lines) ==
    IF FirstBad(lines) = 0
    THEN /\ ret = "true"
         /\ diags = <<>>
         /\ lineNum = Len(lines)
    ELSE /\ ret = "false"
         /\ diags = <<Diag(Breaks(lines, FirstBad(lines)), FirstBad(lines))>>
         /\ lineNum = FirstBad(lines)

\* C6 as stated: isMazeFile returns false at the first line that breaks a
\* rule, with one diagnostic naming that line and the first failing check, and
\* reads no later line; if no line breaks a rule it returns true and emits no
\* diagnostic.
C6_FailFastAlways == pc = "validated" => FailFast(disk.lines)

\* C6 amended: the same, for a path that is a readable, non-empty file.
C6_FailFastOnNonEmptyFile ==
    (pc = "validated" /\ Readable(disk) /\ disk.lines # <<>>) => FailFast(disk.lines)

\* a line with a wrong coordinate and a bad wall value is diagnosed as an
\* unexpected coordinate
C6_Witness ==
    /\ pc = "validated"
    /\ Len(disk.lines) = 3
    /\ lineNum = 2
    /\ diags = <<Diag("unexpected-coordinate", 2)>>
    /\ PairOf(disk.lines[1]) = <<0, 0>>
    /\ \E k \in 3..6 : strToInt(tokenize(disk.lines[2])[k]) \notin {0, 1}

\* C10: while isMazeFile scans, every line whose coordinate was accepted
\* leaves expectedX = x and expectedY = y + 1 >= 1, so expectedY = 0 only
\* before the first line; expectedX never decreases and grows by at most 1
\* per line; a new-column line after the first line is never turned down by
\* the expectedY # 0 guard.
C10_ScanState ==
    /\ [](pc = "scan" =>
            IF lineNum = 0 THEN expectedX = 0 /\ expectedY = 0
            ELSE /\ expectedY >= 1
                 /\ <<expectedX, expectedY - 1>> = PairOf(disk.lines[lineNum]))
    /\ [][pc = "scan" =>
            /\ expectedX' >= expectedX
            /\ expectedX' <= expectedX + 1
            /\ (pc' = "scan" \/ (diags' # <<>> /\ diags'[1].kind = "invalid-wall-value"))
                 => /\ expectedY' >= 1
                    /\ <<expectedX', expectedY' - 1>> = PairOf(disk.lines[lineNum'])
            /\ (/\ lineNum >= 1
                /\ lineNum < Len(disk.lines)
                /\ Breaks(disk.lines, lineNum + 1) \notin
                      {"wrong-token-count", "non-numeric-token"}
                /\ PairOf(disk.lines[lineNum + 1]) = <<expectedX + 1, 0>>)
                 => expectedX' = expectedX + 1]_vars

C10_Witness ==
    /\ pc = "scan"
    /\ lineNum = 2
    /\ expectedX = 1
    /\ expectedY = 1

\* the cell a well-formed line describes: wall tokens are north, east, south, west
TileOfLine(line) ==
    LET t == tokenize(line)
    IN  Tile(strToInt(t[3]) = 1, strToInt(t[4]) = 1,
             strToInt(t[5]) = 1, strToInt(t[6]) = 1)

\* C7: the grid loadMaze returns for a conformant file has one column per
\* distinct x of the file (last x + 1), column x holds one cell per line with
\* that x, in file order, cell (x, y) carries the walls of the line naming
\* (x, y), and no column is empty.
C7_LoadedGridMatchesFile ==
    pc = "loaded" =>
        LET lines == disk.lines
            ps == Pairs(lines)
            LinesOf(x) == {i \in 1..Len(lines) : ps[i][1] = x}
        IN  /\ Len(maze) = ps[Len(lines)][1] + 1
            /\ Len(maze) = Cardinality({ps[i][1] : i \in 1..Len(lines)})
            /\ \A x \in 0..(Len(maze) - 1) :
                  /\ Len(maze[x + 1]) = Cardinality(LinesOf(x))
                  /\ Len(maze[x + 1]) >= 1
            /\ \A i \in 1..Len(lines) :
                  /\ maze[ps[i][1] + 1][ps[i][2] + 1] = TileOfLine(lines[i])
                  /\ ps[i][2] + 1 = Cardinality({j \in LinesOf(ps[i][1]) : j <= i})

C7_Witness ==
    /\ pc = "loaded"
    /\ diskFrom = "author"
    /\ Len(maze) = 2
    /\ Len(maze[1]) = 2
    /\ Len(maze[2]) = 1
    /\ maze[1][1] # maze[1][2]

\* C2: when the file on disk was written by saveMaze from a grid that
\* loadMaze returned, loading it again succeeds and returns an equal grid:
\* same columns, same rows in every column, same walls in every cell.
C2_RoundTrip ==
    [][(/\ pc \in Resting
        /\ diskFrom = "save-load"
        /\ mazeFrom = "load"
        /\ pc' \in {"loaded", "aborted"})
        => /\ pc' = "loaded"
           /\ ret' = "maze"
           /\ Len(maze') = Len(maze)
           /\ \A x \in 1..Len(maze) :
                 /\ Len(maze'[x]) = Len(maze[x])
                 /\ \A y \in 1..Len(maze[x]) : maze'[x][y].walls = maze[x][y].walls]_vars

C2_Witness ==
    /\ pc = "loaded"
    /\ diskFrom = "save-load"
    /\ Len(maze) = 2
    /\ Len(maze[1]) = 2
    /\ maze[1][1] # maze[1][2]

\* saveMaze has just written the file, which can be read back
SavedAndReadable == pc = "saved" /\ diags = <<>> /\ Readable(disk)

\* C3 as stated: for every grid, empty grids and empty columns included, the
\* file a successful saveMaze wrote is accepted by isMazeFile.
C3_SavedAlwaysAccepted == SavedAndReadable => isMazeFile(disk).ret = "true"

\* C3 amended: the file a successful saveMaze wrote is accepted by isMazeFile
\* for every grid with at least one column and no empty column.
C3_SavedAcceptedIfNoEmptyColumn ==
    (/\ SavedAndReadable
     /\ maze # <<>>
     /\ \A x \in 1..Len(maze) : maze[x] # <<>>)
    => isMazeFile(disk).ret = "true"

C3_Witness ==
    /\ SavedAndReadable
    /\ mazeFrom = "app"
    /\ Len(maze) = 2
    /\ Len(maze[1]) = 2
    /\ Len(maze[2]) = 2
    /\ Len(disk.lines) = 4

\* the path is missing, unreadable, empty or holds a line that breaks a rule
RejectedPath(d) == ~Readable(d) \/ d.lines = <<>> \/ FirstBad(d.lines) # 0

\* C8: loadMaze on a path that is missing, empty or not conformant stops on
\* its assertion and hands back no grid; the caller's grid is untouched.
C8_LoadStopsOnRejectedPath ==
    [][(/\ pc \in Resting
        /\ pc' \in {"loaded", "aborted"}
        /\ RejectedPath(disk))
        => /\ pc' = "aborted"
           /\ ret' = "abort"
           /\ maze' = maze
           /\ mazeFrom' = mazeFrom]_vars

C8_Witness ==
    /\ pc = "aborted"
    /\ Readable(disk)
    /\ Len(disk.lines) = 3
    /\ FirstBad(disk.lines) = 3

\* C9: when saveMaze cannot open the destination, what the caller receives
\* differs from what a successful save hands back ("void", a plain return).
C9_OpenFailureReported ==
    (pc = "saved" /\ diags = <<Diag("unable-to-save", 0)>>) => ret # "void"

====
